---- MODULE Spec2Model ----
(***************************************************************************)
(* Build-state coordinator of the webpack resolver (src/unnamed/part_000). *)
(*                                                                         *)
(* The module-level variables state, forceRebuild and compilationCallbacks *)
(* are the coordinator.  The webpack compiler is the environment: it has   *)
(* builds in flight (started by compiler.run and by the watcher) and emits *)
(* the events 'invalid', 'watch-run', 'run' and 'done', to which the       *)
(* plugins registered in makeCompiler react.  process.nextTick and the     *)
(* asynchronous readFile are queues of callbacks that run later.           *)
(*                                                                         *)
(* A readyCallback scheduled by process.nextTick runs once the code that   *)
(* emitted 'done' has returned.  That code belongs to the compiler and to  *)
(* the other 'done' plugins, so events and calls may come between a 'done' *)
(* and its drain, and several drains may be pending.                       *)
(*                                                                         *)
(* Spec is the coordinator with every function of the module, rebuild()    *)
(* included, for one configuration.  ExportedSpec is what the exported     *)
(* interface can do, for every configuration and every name a caller may   *)
(* ask for.  Spec_001 is the older variant of the module in part_001.      *)
(***************************************************************************)
EXTENDS Integers, Sequences, FiniteSets, TLC

\* Number of resolve / resolveWhenReady calls (continuations) in a run.
MaxCalls == 2
\* Number of readyCallback closures that may sit in the nextTick queue.
MaxTicks == 2
\* Number of builds started by compiler.run that may be in flight at once.
MaxRunBuilds == 1
\* Number of rebuild() requests counted in one burst (between two 'done').
MaxBurst == 2

VARIABLES
    state,                  \* part_000:40   true: bundle valid
    forceRebuild,           \* part_000:43   a rebuild was asked for while invalid
    compilationCallbacks,   \* part_000:37   the pending queue (continuation ids)
    ticks,                  \* readyCallback closures scheduled by process.nextTick
    runBuilds,              \* builds started by compiler.run(), not yet ended
    watchRunning,           \* the watcher (compiler.watch) has a build in flight
    conts,                  \* the continuations handed to resolveWhenReady
    compiler,               \* part_000:36   "null" until webpack(config)
    resolver,               \* part_000:28   "null" until makeResolver()
    libraryTarget,          \* part_000:30   output.libraryTarget of the config
    burst,                  \* history: rebuild() calls while invalid since 'done'
    last                    \* history: the operation that ran last

vars == <<state, forceRebuild, compilationCallbacks, ticks, runBuilds,
          watchRunning, conts, compiler, resolver, libraryTarget, burst, last>>

\* Set by module.exports at startup and never again.
startup == <<compiler, resolver, libraryTarget>>

CommonJS == "commonjs"
CommonJS2 == "commonjs2"

\* Names callers ask for; config.entry (the EntryMap) has the entry "alpha".
Names == {"alpha", "gamma"}
EntryMap == {"alpha"}

\* output.libraryTarget as the configuration file gives it.
RawTargets == {CommonJS, CommonJS2, "umd", "undefined"}

\* What requireFromString may return for an output file: the module.exports
\* objects, by name, and their members.
Modules == {"{alpha, beta}", "{handler}"}

Exports(m) ==
    CASE m = "{alpha, beta}" -> [alpha |-> "fn", beta |-> "fn2"]
      [] m = "{handler}"     -> [handler |-> "fn"]

\* loadedModule[funName]
Member(m, k) == IF k \in DOMAIN Exports(m) THEN Exports(m)[k] ELSE "undefined"

Ids == 1..MaxCalls

\* What a caller may pass to resolveWhenReady: a function that returns, one
\* that throws, and one that calls resolveWhenReady again from its body.
FnKinds == {"fn", "fnThrows", "fnReenter"}

NoCont == [kind |-> "none", name |-> "-", phase |-> "none", stale |-> FALSE]

NewCont(kind) == [NoCont EXCEPT !.kind = kind, !.phase = "idle"]

\* doResolve of resolve(funName): funName is in its closure.
NewResolve(funName) == [NewCont("doResolve") EXCEPT !.name = funName]

\* The function a "fnReenter" continuation will hand to resolveWhenReady when
\* it is called: it is no continuation of the coordinator before that.
Unborn(kind) == [NoCont EXCEPT !.kind = kind, !.phase = "unborn"]

\* Builds that have started and not yet ended.
InFlight == runBuilds + (IF watchRunning THEN 1 ELSE 0)

NextId == Cardinality({i \in Ids : conts[i].kind # "none"}) + 1

\* What a handler reads and writes while it runs.
Ctx == [state |-> state, inflight |-> InFlight, conts |-> conts,
        cbs |-> compilationCallbacks, invoked |-> <<>>, threw |-> FALSE]

\* op: the operation; runs: the compiler.run() calls it made; logged: it logged
\* 'bundle is now INVALID'; n: the rebuild() calls a 'done' found coalesced;
\* inv: the continuations it invoked, in the order of the calls; arg: its
\* inputs; err: the error that was raised in it; res: what it settled the
\* promise with, "rejected" or the value, and "none" if it settled none.
NoEvent == [op |-> "init", runs |-> 0, logged |-> FALSE, n |-> 0, inv |-> <<>>,
            arg |-> <<>>, err |-> "none", res |-> "none"]

Event(op, runs, logged, n) ==
    [NoEvent EXCEPT !.op = op, !.runs = runs, !.logged = logged, !.n = n]

\* The operations that are a markInvalid of the coordinator.
MarkInvalidOps == {"invalid", "watch-run"}

Called(op, c) == [Event(op, 0, FALSE, 0) EXCEPT !.inv = c.invoked]

----------------------------------------------------------------------------
\* The coordinator's functions.

RECURSIVE Invoke(_, _)
RECURSIVE resolveWhenReady(_, _)
RECURSIVE forEach(_, _)

\* doResolve: the guard, then the asynchronous readFile is started.  stale
\* records that the read started while a build was in flight.
doResolve(id, c) ==
    IF ~c.state
    THEN [c EXCEPT !.conts[id].phase = "rejNotReady"]
    ELSE [c EXCEPT !.conts[id].phase = "reading",
                   !.conts[id].stale = (c.inflight > 0)]

\* fn(): the call of one continuation, by kind.  A continuation called a
\* second time is marked "twice".
Invoke(id, c) ==
    LET k  == c.conts[id].kind
        c1 == [c EXCEPT !.invoked = Append(@, id)]
    IN  CASE c.conts[id].phase # "idle" -> [c1 EXCEPT !.conts[id].phase = "twice"]
          [] k = "doResolve" -> doResolve(id, c1)
          [] k = "fn"        -> [c1 EXCEPT !.conts[id].phase = "called"]
          [] k = "fnThrows"  -> [c1 EXCEPT !.conts[id].phase = "threw",
                                           !.threw = TRUE]
          [] k = "fnReenter" ->
                resolveWhenReady(id + 1, [c1 EXCEPT !.conts[id].phase = "called",
                                                    !.conts[id + 1].phase = "idle"])

\* Mutant: the continuation is queued whatever the state.
resolveWhenReady_AlwaysQueues(fn, c) == [c EXCEPT !.cbs = Append(@, fn)]

\* Mutant: the continuation is put at the head of the queue.
resolveWhenReady_Prepend(fn, c) ==
    IF c.state
    THEN Invoke(fn, c)
    ELSE [c EXCEPT !.cbs = <<fn>> \o @]

resolveWhenReady(fn, c) ==
    IF c.state
    THEN Invoke(fn, c)
    ELSE [c EXCEPT !.cbs = Append(@, fn)]

\* Mutant: the queue is walked from its last entry.
forEach_Reversed(cbs, c) ==
    IF cbs = <<>> THEN c
    ELSE LET r == Invoke(cbs[Len(cbs)], c)
         IN  IF r.threw THEN r ELSE forEach(SubSeq(cbs, 1, Len(cbs) - 1), r)

\* cbs.forEach(continueBecauseBundleAvailable): an exception ends the loop.
forEach(cbs, c) ==
    IF cbs = <<>> THEN c
    ELSE LET r == Invoke(Head(cbs), c)
         IN  IF r.threw THEN r ELSE forEach(Tail(cbs), r)

\* Mutant: the drain does not check that the bundle is still valid.
readyCallback_NoCheck(c) == forEach(c.cbs, [c EXCEPT !.cbs = <<>>])

\* Mutant: the drain does not replace compilationCallbacks by [].
readyCallback_NoReset(c) ==
    IF ~c.state THEN c
    ELSE forEach(c.cbs, c)

readyCallback(c) ==
    IF ~c.state THEN c
    ELSE forEach(c.cbs, [c EXCEPT !.cbs = <<>>])

\* Mutant: invalidPlugin logs whatever the state.
invalidPlugin_AlwaysLogs(st) == [state |-> FALSE, logged |-> TRUE]

\* invalidPlugin: logs on a VALID -> INVALID edge, then state = false.
invalidPlugin(st) == [state |-> FALSE, logged |-> st]

\* invalidAsyncPlugin: state = false, then invalidPlugin(), then callback().
invalidAsyncPlugin(st) == invalidPlugin(FALSE)

\* invalidAsyncPlugin of the older variant: invalidPlugin(), then callback().
invalidAsyncPlugin_001(st) == invalidPlugin(st)

\* Mutant: rebuild() sets the flag whatever the state and starts no build.
rebuild_AlwaysDefers(st, fr, rb) ==
    [state |-> st, forceRebuild |-> TRUE, runBuilds |-> rb, runs |-> 0]

\* Mutant: rebuild() calls compiler.run() whatever the state.
rebuild_AlwaysRuns(st, fr, rb) ==
    [state |-> FALSE, forceRebuild |-> fr, runBuilds |-> rb + 1, runs |-> 1]

\* rebuild(): the new state, flag, run-builds in flight and run() calls made.
\* compiler.run() emits 'run', to which invalidAsyncPlugin reacts.
rebuild(st, fr, rb) ==
    IF st
    THEN [state |-> invalidAsyncPlugin(FALSE).state, forceRebuild |-> fr,
          runBuilds |-> rb + 1, runs |-> 1]
    ELSE [state |-> st, forceRebuild |-> TRUE, runBuilds |-> rb, runs |-> 0]

\* Mutant: the 'done' plugin leaves the flag and the rebuild for later.
donePlugin_KeepValid(fr, rb) ==
    [state |-> TRUE, forceRebuild |-> fr, runBuilds |-> rb, runs |-> 0]

\* Mutant: the 'done' plugin clears the flag and does not call rebuild().
donePlugin_NoRebuild(fr, rb) ==
    [state |-> TRUE, forceRebuild |-> FALSE, runBuilds |-> rb, runs |-> 0]

\* The 'done' plugin, after state = true and process.nextTick(readyCallback):
\* the forceRebuild branch.  rb: run-builds in flight once this build ended.
donePlugin(fr, rb) ==
    IF fr
    THEN rebuild(TRUE, FALSE, rb)
    ELSE [state |-> TRUE, forceRebuild |-> fr, runBuilds |-> rb, runs |-> 0]

\* Mutant: a build that ended with an error marks the bundle valid.
compileComplete_MarksValid(st) == TRUE

\* compileComplete(err, stats) with err: it logs and leaves the state, which
\* is returned, as it is.
compileComplete(st) == st

\* Mutant: an output.libraryTarget that is not supported is an error.
makeConfig_Strict(found, entriesOk, target) ==
    [threw |-> ~found \/ ~entriesOk \/ target \notin {CommonJS, CommonJS2},
     libraryTarget |-> IF found /\ target = CommonJS2 THEN CommonJS2
                                                      ELSE CommonJS]

\* makeConfig.  found: options.config is given or the file at configPath
\* exists; entriesOk: the handler of every function resolves to a file;
\* target: output.libraryTarget of the configuration.  threw: it threw;
\* libraryTarget: the module's variable afterwards.
makeConfig(found, entriesOk, target) ==
    IF ~found
    THEN [threw |-> TRUE, libraryTarget |-> CommonJS]
    ELSE [threw |-> ~entriesOk,
          libraryTarget |-> IF target \in {CommonJS, CommonJS2}
                            THEN target
                            ELSE CommonJS2]

\* Mutant: the whole module is returned in both output modes.
selectExport_Whole(lt, loadedModule, funName) == loadedModule

\* The value doResolve passes to resolve(): loadedModule[funName] when
\* libraryTarget === CommonJS, loadedModule otherwise.
selectExport(lt, loadedModule, funName) ==
    IF lt = CommonJS THEN Member(loadedModule, funName) ELSE loadedModule

\* What readFile and requireFromString can do with an output file.
Loads == {[outcome |-> "ok", mod |-> m] : m \in Modules}
         \cup {[outcome |-> o, mod |-> "none"] : o \in {"err", "evalThrows"}}

\* The error a load raises.
Raised(load) ==
    CASE load.outcome = "err"        -> "readFile"
      [] load.outcome = "evalThrows" -> "requireFromString"
      [] OTHER                       -> "none"

\* Mutant: a failed read rejects every promise that waits for its read.
readFileCallback_RejectsAll(id, load, cs, lt, unsafe) ==
    [conts |-> [i \in Ids |->
                  IF cs[i].phase = "reading" /\ (i = id \/ load.outcome = "err")
                  THEN [cs[i] EXCEPT !.phase = IF load.outcome = "ok"
                                               THEN "fulfilled" ELSE "rejected",
                                     !.stale = FALSE]
                  ELSE cs[i]],
     err   |-> Raised(load),
     res   |-> IF load.outcome = "ok"
               THEN selectExport(lt, load.mod, cs[id].name) ELSE "rejected"]

\* The readFile callback of the older doResolve (part_001): no try/catch and
\* no export selection.  An exception of requireFromString leaves the
\* callback and the promise is never settled.
readFileCallback_001(id, load, cs, lt, unsafe) ==
    [conts |-> [cs EXCEPT
                  ![id].phase = CASE load.outcome = "ok"  -> "fulfilled"
                                  [] load.outcome = "err" -> "rejected"
                                  [] OTHER                -> "abandoned",
                  ![id].stale = IF load.outcome = "ok" THEN @ \/ unsafe
                                                       ELSE FALSE],
     err   |-> Raised(load),
     res   |-> CASE load.outcome = "ok"  -> load.mod
                 [] load.outcome = "err" -> "rejected"
                 [] OTHER                -> "none"]

\* The readFile callback of doResolve.  err: reject(err).  Otherwise the
\* try block: requireFromString, the export selection, resolve(); what it
\* throws is caught and rejects the promise.  unsafe: the read completed
\* while the bundle was invalid or a build was in flight.
readFileCallback(id, load, cs, lt, unsafe) ==
    [conts |-> [cs EXCEPT
                  ![id].phase = IF load.outcome = "ok" THEN "fulfilled"
                                                       ELSE "rejected",
                  ![id].stale = IF load.outcome = "ok" THEN @ \/ unsafe
                                                       ELSE FALSE],
     err   |-> Raised(load),
     res   |-> IF load.outcome = "ok"
               THEN selectExport(lt, load.mod, cs[id].name) ELSE "rejected"]

----------------------------------------------------------------------------
\* The state after module.exports, which runs makeCompiler, which calls
\* makeConfig, and makeResolver.  When makeConfig throws nothing else has happened;
\* otherwise compiler.run and compiler.watch have each started a build.
\* last.arg holds the inputs of makeConfig.
Startup(found, entriesOk, target) ==
        LET r == makeConfig(found, entriesOk, target)
        IN  /\ libraryTarget = r.libraryTarget
            /\ compiler = IF r.threw THEN "null" ELSE "webpack"
            /\ resolver = IF r.threw THEN "null" ELSE "resolver"
            /\ runBuilds = IF r.threw THEN 0 ELSE 1
            /\ watchRunning = ~r.threw
            /\ state = FALSE
            /\ forceRebuild = FALSE
            /\ compilationCallbacks = <<>>
            /\ ticks = 0
            /\ conts = [i \in Ids |-> NoCont]
            /\ burst = 0
            /\ last = [NoEvent EXCEPT
                         !.arg = <<IF found THEN "found" ELSE "missing",
                                   IF entriesOk THEN "entries" ELSE "noEntry",
                                   target>>]

\* Startup with a configuration that is found, whose entries resolve and that
\* asks for the output convention commonjs2.
Init == Startup(TRUE, TRUE, CommonJS2)

\* Startup with any configuration.
InitAny ==
    \E found \in BOOLEAN, entriesOk \in BOOLEAN, target \in RawTargets :
        Startup(found, entriesOk, target)

Commit(c) ==
    /\ conts' = c.conts
    /\ compilationCallbacks' = c.cbs

\* resolver.resolve(funName): new Promise(resolveHandler(funName)).  The name
\* selects the output file that is read and, in CommonJS mode, the export;
\* config.entry[funName] is read and not tested.
Resolve(funName) ==
    /\ resolver # "null"
    /\ NextId <= MaxCalls
    /\ LET id == NextId
           c0 == [Ctx EXCEPT !.conts[id] = NewResolve(funName)]
           c1 == resolveWhenReady(id, c0)
       IN  /\ Commit(IF c1.threw
                     THEN [c1 EXCEPT !.conts[id].phase = "rejected"]
                     ELSE c1)
           /\ last' = [Called("resolve", c1) EXCEPT !.arg = <<funName>>]
    /\ UNCHANGED <<state, forceRebuild, ticks, runBuilds, watchRunning, burst>>
    /\ UNCHANGED startup

\* resolver.resolveWhenReady(fn), called by a collaborator with its own fn.
ResolveWhenReady(kind) ==
    /\ resolver # "null"
    /\ NextId + (IF kind = "fnReenter" THEN 1 ELSE 0) <= MaxCalls
    /\ LET id == NextId
           c0 == [Ctx EXCEPT !.conts[id] = NewCont(kind)]
           c1 == IF kind = "fnReenter"
                 THEN [c0 EXCEPT !.conts[id + 1] = Unborn("fn")]
                 ELSE c0
           c2 == resolveWhenReady(id, c1)
       IN  /\ Commit(c2)
           /\ last' = Called("resolveWhenReady", c2)
    /\ UNCHANGED <<state, forceRebuild, ticks, runBuilds, watchRunning, burst>>
    /\ UNCHANGED startup

\* The readFile callback of doResolve runs: it settles the promise.  load:
\* the read failed, requireFromString threw, or the module loaded.  The
\* compiler writes an output file for the entries only, so the read of any
\* other name fails.
ReadFileCallback(id, load) ==
    /\ conts[id].phase = "reading"
    /\ conts[id].name \notin EntryMap => load.outcome = "err"
    /\ LET r == readFileCallback(id, load, conts, libraryTarget,
                                 ~state \/ InFlight > 0)
       IN  /\ conts' = r.conts
           /\ last' = [Event("readFile", 0, FALSE, 0) EXCEPT
                         !.arg = <<conts[id].name, load.outcome, load.mod>>,
                         !.err = r.err, !.res = r.res]
    /\ UNCHANGED <<state, forceRebuild, compilationCallbacks, ticks, runBuilds,
                   watchRunning, burst>>
    /\ UNCHANGED startup

\* The same callback in the older doResolve.
ReadFileCallback_001(id, load) ==
    /\ conts[id].phase = "reading"
    /\ conts[id].name \notin EntryMap => load.outcome = "err"
    /\ LET r == readFileCallback_001(id, load, conts, libraryTarget,
                                     ~state \/ InFlight > 0)
       IN  /\ conts' = r.conts
           /\ last' = [Event("readFile", 0, FALSE, 0) EXCEPT
                         !.arg = <<conts[id].name, load.outcome, load.mod>>,
                         !.err = r.err, !.res = r.res]
    /\ UNCHANGED <<state, forceRebuild, compilationCallbacks, ticks, runBuilds,
                   watchRunning, burst>>
    /\ UNCHANGED startup

\* Mutant: the 'invalid' event also forgets the waiting continuations.
Invalid_DropsQueue ==
    /\ compiler # "null"
    /\ state' = invalidPlugin(state).state
    /\ compilationCallbacks' = <<>>
    /\ last' = Event("invalid", 0, invalidPlugin(state).logged, 0)
    /\ UNCHANGED <<forceRebuild, ticks, runBuilds, watchRunning, conts, burst>>
    /\ UNCHANGED startup

\* The compiler's 'invalid' event (a watched file changed).
Invalid ==
    /\ compiler # "null"
    /\ state' = invalidPlugin(state).state
    /\ last' = Event("invalid", 0, invalidPlugin(state).logged, 0)
    /\ UNCHANGED <<forceRebuild, compilationCallbacks, ticks, runBuilds,
                   watchRunning, conts, burst>>
    /\ UNCHANGED startup

\* The watcher starts a build: the 'watch-run' event.
WatchRun ==
    /\ compiler # "null"
    /\ ~watchRunning
    /\ state' = invalidAsyncPlugin(state).state
    /\ watchRunning' = TRUE
    /\ last' = Event("watch-run", 0, invalidAsyncPlugin(state).logged, 0)
    /\ UNCHANGED <<forceRebuild, compilationCallbacks, ticks, runBuilds,
                   conts, burst>>
    /\ UNCHANGED startup

\* 'watch-run' in the older variant, whose invalidAsyncPlugin is
\* invalidPlugin(); callback().
WatchRun_001 ==
    /\ compiler # "null"
    /\ ~watchRunning
    /\ state' = invalidAsyncPlugin_001(state).state
    /\ watchRunning' = TRUE
    /\ last' = Event("watch-run", 0, invalidAsyncPlugin_001(state).logged, 0)
    /\ UNCHANGED <<forceRebuild, compilationCallbacks, ticks, runBuilds,
                   conts, burst>>
    /\ UNCHANGED startup

\* The 'done' event, with rb the run-builds in flight after this build.
Done(rb) ==
    /\ ticks < MaxTicks
    /\ forceRebuild => rb < MaxRunBuilds
    /\ LET r == donePlugin(forceRebuild, rb)
       IN  /\ state' = r.state
           /\ forceRebuild' = r.forceRebuild
           /\ runBuilds' = r.runBuilds
           /\ last' = Event("done", r.runs, FALSE, burst)
    /\ ticks' = ticks + 1
    /\ burst' = 0
    /\ UNCHANGED <<compilationCallbacks, conts>>
    /\ UNCHANGED startup

\* A build started by compiler.run() ends with 'done'.
RunDone ==
    /\ runBuilds > 0
    /\ Done(runBuilds - 1)
    /\ UNCHANGED watchRunning

\* The watcher's build ends with 'done'.
WatchDone ==
    /\ watchRunning
    /\ Done(runBuilds)
    /\ watchRunning' = FALSE

\* A build ends with an error: the compiler emits no 'done' event and calls
\* compileComplete(err), or the callback of rebuild().
RunFailed ==
    /\ runBuilds > 0
    /\ runBuilds' = runBuilds - 1
    /\ state' = compileComplete(state)
    /\ last' = Event("failed", 0, FALSE, 0)
    /\ UNCHANGED <<forceRebuild, compilationCallbacks, ticks,
                   watchRunning, conts, burst>>
    /\ UNCHANGED startup

WatchFailed ==
    /\ watchRunning
    /\ watchRunning' = FALSE
    /\ state' = compileComplete(state)
    /\ last' = Event("failed", 0, FALSE, 0)
    /\ UNCHANGED <<forceRebuild, compilationCallbacks, ticks,
                   runBuilds, conts, burst>>
    /\ UNCHANGED startup

\* The nextTick queue runs its oldest readyCallback.
NextTick ==
    /\ ticks > 0
    /\ Commit(readyCallback(Ctx))
    /\ ticks' = ticks - 1
    /\ last' = Called("readyCallback", readyCallback(Ctx))
    /\ UNCHANGED <<state, forceRebuild, runBuilds, watchRunning,
                   burst>>
    /\ UNCHANGED startup

\* requestRebuild(): a call of rebuild().
Rebuild ==
    /\ compiler # "null"
    /\ state => runBuilds < MaxRunBuilds
    /\ ~state => burst < MaxBurst
    /\ LET r == rebuild(state, forceRebuild, runBuilds)
       IN  /\ state' = r.state
           /\ forceRebuild' = r.forceRebuild
           /\ runBuilds' = r.runBuilds
           /\ last' = Event("rebuild", r.runs, FALSE, 0)
    /\ burst' = IF state THEN burst ELSE burst + 1
    /\ UNCHANGED <<compilationCallbacks, ticks, watchRunning,
                   conts>>
    /\ UNCHANGED startup

Next ==
    \/ \E f \in EntryMap : Resolve(f)
    \/ \E k \in FnKinds : ResolveWhenReady(k)
    \/ \E i \in Ids, l \in Loads : ReadFileCallback(i, l)
    \/ Invalid
    \/ WatchRun
    \/ RunDone
    \/ WatchDone
    \/ RunFailed
    \/ WatchFailed
    \/ NextTick
    \/ Rebuild

Spec == Init /\ [][Next]_vars

\* Mutant: the resolver also hands out rebuild().
NextExported_WithRebuild == Next

\* What can happen through the exported interface, that is the resolver's
\* resolve and resolveWhenReady and the compiler's events, for every
\* configuration and every name a caller may ask for.
NextExported ==
    \/ \E f \in Names : Resolve(f)
    \/ \E k \in FnKinds : ResolveWhenReady(k)
    \/ \E i \in Ids, l \in Loads : ReadFileCallback(i, l)
    \/ Invalid
    \/ WatchRun
    \/ RunDone
    \/ WatchDone
    \/ RunFailed
    \/ WatchFailed
    \/ NextTick

ExportedSpec == InitAny /\ [][NextExported]_vars

\* The older variant of the module (part_001), which differs in
\* invalidAsyncPlugin and in the readFile callback of doResolve.
Next_001 ==
    \/ \E f \in EntryMap : Resolve(f)
    \/ \E k \in FnKinds : ResolveWhenReady(k)
    \/ \E i \in Ids, l \in Loads : ReadFileCallback_001(i, l)
    \/ Invalid
    \/ WatchRun_001
    \/ RunDone
    \/ WatchDone
    \/ RunFailed
    \/ WatchFailed
    \/ NextTick
    \/ Rebuild

\* Its makeConfig sets output.libraryTarget = 'commonjs' whatever the
\* configuration says.
Init_001 == Startup(TRUE, TRUE, CommonJS)

Spec_001 == Init_001 /\ [][Next_001]_vars

----------------------------------------------------------------------------
\* Helpers of the properties.

InSeq(x, q) == \E k \in 1..Len(q) : q[k] = x

\* The step is a call of resolve or resolveWhenReady: a continuation is born.
IsCall == NextId <= MaxCalls /\ conts'[NextId].kind # "none"

IsDone == last'.op = "done" /\ ticks' = ticks + 1

IsTick == last'.op = "readyCallback" /\ ticks' = ticks - 1

IsRebuild == last'.op = "rebuild"

----------------------------------------------------------------------------
\* C1: at most one build is in flight at any time: the builds that have
\* started (compiler.run and compiler.watch at startup, the watcher's
\* rebuilds, rebuild()) and not yet ended are at most one.
C1_AtMostOneBuildInFlight == InFlight <= 1

\* C2: a queued continuation is invoked only while the bundle is VALID: the
\* 'done' handler invokes none, a deferred drain that finds the bundle INVALID
\* invokes none and leaves the queue as it is, every invocation happens in a
\* VALID state, and so no promise is rejected by doResolve's guard.
C2_DrainOnlyWhenValid ==
    /\ [](\A i \in Ids : conts[i].phase # "rejNotReady")
    /\ [][IsDone => last'.inv = <<>> /\ UNCHANGED <<conts, compilationCallbacks>>]_vars
    /\ [][IsTick /\ ~state =>
            last'.inv = <<>> /\ UNCHANGED <<conts, compilationCallbacks>>]_vars
    /\ [][last'.inv # <<>> => state /\ state']_vars

\* C2: a deferred drain has found the bundle INVALID with continuations queued.
C2_Witness ==
    /\ last.op = "readyCallback"
    /\ ~state
    /\ compilationCallbacks # <<>>

\* C3: no promise of resolve is fulfilled with output whose read started or
\* completed while the bundle was INVALID or a build was in flight.
C3_NoStaleOutput ==
    \A i \in Ids : conts[i].phase = "fulfilled" => ~conts[i].stale

\* C4: rebuild() calls made while the bundle is INVALID are coalesced: none
\* of them calls compiler.run(), the flag is set exactly while such calls are
\* pending, and the 'done' that follows calls run() exactly once for all of
\* them and clears the flag; a 'done' with no call pending calls run() never.
C4_Coalescing ==
    /\ [](forceRebuild <=> burst > 0)
    /\ [][IsRebuild /\ ~state =>
            /\ last'.runs = 0
            /\ runBuilds' = runBuilds
            /\ forceRebuild' /\ ~state']_vars
    /\ [][IsDone /\ forceRebuild =>
            /\ last'.runs = 1
            /\ last'.n = burst
            /\ InFlight' = InFlight
            /\ ~forceRebuild']_vars
    /\ [][IsDone /\ ~forceRebuild =>
            /\ last'.runs = 0
            /\ InFlight' = InFlight - 1]_vars

\* C4: a 'done' has answered a burst of two or more rebuild() calls with one
\* run().
C4_Witness ==
    /\ last.op = "done"
    /\ last.n >= 2
    /\ last.runs = 1
    /\ ~forceRebuild

\* C5: a drain invokes the queued continuations in the order of the queue,
\* from its head, with no entry skipped (an exception ends it), and leaves
\* the queue empty, so that of two queued continuations the one enqueued
\* first is invoked first.
C5_QueueOrder ==
    [][IsTick /\ state =>
         LET q == compilationCallbacks
             d == SelectSeq(last'.inv, LAMBDA i : InSeq(i, q))
         IN  /\ d = SubSeq(q, 1, Len(d))
             /\ q # <<>> => d # <<>>
             /\ d # q => conts'[d[Len(d)]].phase = "threw"
             /\ compilationCallbacks' = <<>>]_vars

\* C5: a drain has invoked two queued continuations.
C5_Witness ==
    /\ last.op = "readyCallback"
    /\ Len(last.inv) >= 2
    /\ \A k \in 1..Len(last.inv) : conts[last.inv[k]].kind # "fnReenter"

\* C6: no continuation is invoked twice, and a continuation in the queue has
\* not been invoked (the queue holds no continuation twice).
C6_AtMostOnce ==
    /\ \A i \in Ids : conts[i].phase # "twice"
    /\ \A k \in 1..Len(compilationCallbacks) :
          /\ conts[compilationCallbacks[k]].phase = "idle"
          /\ \A j \in 1..Len(compilationCallbacks) :
                compilationCallbacks[j] = compilationCallbacks[k] => j = k

\* C6: with two drains pending, the first has invoked a continuation that
\* called resolveWhenReady again, and the second is still to run.
C6_Witness ==
    /\ last.op = "readyCallback"
    /\ ticks >= 1
    /\ \E k \in 1..Len(last.inv) : conts[last.inv[k]].kind = "fnReenter"

\* C7: resolveWhenReady(fn) with the bundle VALID invokes fn inside the call
\* and leaves the queue as it is; with the bundle INVALID it does not invoke
\* fn and appends it as the last entry of the queue.
C7_Await ==
    [][IsCall =>
         LET id == NextId
         IN  IF state
             THEN /\ compilationCallbacks' = compilationCallbacks
                  /\ last'.inv # <<>>
                  /\ Head(last'.inv) = id
                  /\ conts'[id].phase # "idle"
             ELSE /\ last'.inv = <<>>
                  /\ compilationCallbacks' = Append(compilationCallbacks, id)
                  /\ conts'[id].phase = "idle"]_vars

\* C7: a call made while INVALID has appended its continuation behind an
\* earlier one.
C7_Witness ==
    /\ last.op \in {"resolve", "resolveWhenReady"}
    /\ ~state
    /\ last.inv = <<>>
    /\ Len(compilationCallbacks) >= 2

\* C8 as claimed: the 'done' handler leaves the flag and the rebuild until
\* the queue has been drained, and the drain of a completion that found the
\* flag set is not skipped.
C8_DrainBeforeRebuild ==
    /\ [][IsDone /\ forceRebuild => forceRebuild' /\ last'.runs = 0]_vars
    /\ [][IsTick /\ last.op = "done" /\ last.n > 0 /\ compilationCallbacks # <<>> =>
            last'.inv # <<>>]_vars

\* C8 as amended: a 'done' that finds the flag set clears it and calls
\* compiler.run() once inside the handler, before the deferred drain, and
\* leaves the bundle INVALID with the queue untouched; the drain that runs
\* next invokes nothing and leaves the queue as it is.
C8_RebuildBeforeDrain ==
    /\ [][IsDone /\ forceRebuild =>
            /\ ~forceRebuild' /\ last'.runs = 1 /\ ~state'
            /\ last'.inv = <<>>
            /\ UNCHANGED <<conts, compilationCallbacks>>]_vars
    /\ [][IsTick /\ last.op = "done" /\ last.runs = 1 =>
            /\ last'.inv = <<>>
            /\ UNCHANGED <<conts, compilationCallbacks>>]_vars

\* C8: a 'done' has found the flag set while continuations were queued; its
\* drain is pending.
C8_Witness ==
    /\ last.op = "done"
    /\ last.runs = 1
    /\ ticks > 0
    /\ compilationCallbacks # <<>>

\* C9: no rebuild() request is lost: made while VALID it sets the bundle
\* INVALID and calls compiler.run() once in the same step; made while INVALID
\* it stays pending until a 'done' calls run(), which happens if builds keep
\* completing.
C9_NoRebuildLost ==
    /\ [][IsRebuild /\ state =>
            /\ ~state' /\ last'.runs = 1
            /\ runBuilds' = runBuilds + 1
            /\ forceRebuild' = forceRebuild]_vars
    /\ [][forceRebuild /\ ~forceRebuild' => IsDone /\ last'.runs = 1]_vars
    /\ ([]<><<RunDone \/ WatchDone>>_vars =>
            (forceRebuild ~> (last.op = "done" /\ last.runs = 1)))

\* C9: a 'done' has called run() for a single rebuild() made while INVALID.
C9_Witness ==
    /\ last.op = "done"
    /\ last.n = 1
    /\ last.runs = 1
    /\ runBuilds > 0

\* C10: once a build has completed and its deferred drain has run with no
\* invalidation since (the bundle is VALID, no drain is pending), every
\* continuation handed to resolveWhenReady has been invoked.
C10_EveryQueuedInvoked ==
    state /\ ticks = 0 => \A i \in Ids : conts[i].phase # "idle"

----------------------------------------------------------------------------
IsResolve == IsCall /\ last'.op = "resolve"

\* C12: resolve(name) for a name that is not an entry of config.entry is
\* rejected at once, in every BuildState: the promise is rejected in the step
\* of the call, nothing is appended to the queue, and BuildState, RebuildFlag
\* and the queue are as before.
C12_UnknownNameRejectedAtOnce ==
    [][IsResolve /\ last'.arg[1] \notin EntryMap =>
          /\ conts'[NextId].phase = "rejected"
          /\ ~InSeq(NextId, compilationCallbacks')
          /\ UNCHANGED <<state, forceRebuild, compilationCallbacks>>]_vars

\* The step is the readFile callback of one doResolve.
IsRead == last'.op = "readFile" /\ conts' # conts

\* C13: a read failure in one caller's continuation rejects exactly that
\* caller's promise, with the error of the read, and changes nothing else:
\* BuildState, RebuildFlag, the queue and every other continuation are as
\* before; and in a drain the continuation after a doResolve is still invoked.
C13_ReadFailureIsLocal ==
    /\ [][IsRead /\ last'.arg[2] = "err" =>
            /\ \E i \in Ids :
                  /\ conts[i].phase = "reading"
                  /\ conts'[i].phase = "rejected"
                  /\ \A j \in Ids \ {i} : conts'[j] = conts[j]
            /\ last'.err = "readFile"
            /\ last'.res = "rejected"
            /\ UNCHANGED <<state, forceRebuild, compilationCallbacks, ticks,
                           runBuilds, watchRunning>>]_vars
    /\ [][IsTick /\ state =>
            \A k \in 1..(Len(compilationCallbacks) - 1) :
                /\ conts[compilationCallbacks[k]].kind = "doResolve"
                /\ InSeq(compilationCallbacks[k], last'.inv)
                => InSeq(compilationCallbacks[k + 1], last'.inv)]_vars

C13_Witness ==
    /\ last.op = "readFile"
    /\ last.err = "readFile"
    /\ \E i, j \in Ids :
          /\ i # j
          /\ conts[i].kind = "doResolve" /\ conts[i].phase = "rejected"
          /\ conts[j].kind = "doResolve" /\ conts[j].phase = "reading"

\* C14: when requireFromString throws while it evaluates the compiled bytes,
\* the promise of the caller being served is rejected with that error, so it
\* is settled, and the error does not leave the readFile callback; no other
\* continuation and no coordinator state changes.
C14_LoadErrorRejects ==
    [][IsRead /\ last'.arg[2] = "evalThrows" =>
          /\ \E i \in Ids :
                /\ conts[i].phase = "reading"
                /\ conts'[i].phase = "rejected"
                /\ \A j \in Ids \ {i} : conts'[j] = conts[j]
          /\ last'.err = "requireFromString"
          /\ last'.res = "rejected"
          /\ UNCHANGED <<state, forceRebuild, compilationCallbacks, ticks,
                         runBuilds, watchRunning>>]_vars

\* C15: export selection of resolve(name).  In combined output mode
\* (libraryTarget commonjs) the promise is fulfilled with the member of the
\* loaded exports keyed by name and nothing else, so exports {alpha: fn,
\* beta: fn2} give fn for alpha; in single output mode (commonjs2) it is
\* fulfilled with the whole loaded exports object.
C15_ExportSelection ==
    [][IsRead /\ last'.arg[2] = "ok" =>
          /\ \E i \in Ids :
                /\ conts[i].phase = "reading"
                /\ conts'[i].phase = "fulfilled"
                /\ conts[i].name = last'.arg[1]
          /\ last'.arg[3] \in Modules
          /\ libraryTarget = CommonJS =>
                /\ last'.res = Member(last'.arg[3], last'.arg[1])
                /\ last'.res \notin Modules
                /\ (last'.arg[3] = "{alpha, beta}" /\ last'.arg[1] = "alpha"
                        => last'.res = "fn")
          /\ libraryTarget = CommonJS2 => last'.res = last'.arg[3]
          /\ libraryTarget \in {CommonJS, CommonJS2}]_vars

C15_Witness ==
    /\ last.op = "readFile"
    /\ libraryTarget = CommonJS
    /\ last.arg = <<"alpha", "ok", "{alpha, beta}">>
    /\ last.res = "fn"
    /\ \E i \in Ids : conts[i].phase = "fulfilled"

\* The step is a markInvalid: the 'invalid' or the 'watch-run' event.
IsMark == last'.op \in MarkInvalidOps

\* C16: invalidation is idempotent.  Every markInvalid leaves the bundle
\* INVALID; one that finds it INVALID logs nothing and changes neither
\* BuildState nor RebuildFlag nor the queue nor a continuation; so of two in
\* a row the second logs nothing and at most the first logs.
C16_IdempotentInvalidation ==
    /\ [][IsMark => ~state']_vars
    /\ [][IsMark /\ ~state =>
            /\ ~last'.logged
            /\ UNCHANGED <<state, forceRebuild, compilationCallbacks, conts,
                           ticks, runBuilds>>]_vars
    /\ [][IsMark /\ last.op \in MarkInvalidOps => ~state /\ ~last'.logged]_vars

\* An 'invalid' event has found the bundle INVALID and logged nothing, while
\* a drain is pending: the bundle has been VALID and was marked invalid since.
C16_Witness ==
    /\ last.op = "invalid"
    /\ ~last.logged
    /\ ~state
    /\ ticks > 0
    /\ ~forceRebuild
    /\ compilationCallbacks # <<>>

\* The inputs of makeConfig, as startup recorded them.
ConfigMissing == last.arg[1] = "missing"
EntryMissing == last.arg[2] = "noEntry"
TargetGiven == last.arg[3]

\* C17 as stated: startup with a configuration that cannot be located or is
\* structurally invalid, in particular one whose output.libraryTarget is not
\* a supported value, raises an error and aborts: no compiler is created, no
\* build is started and no resolver is returned.
C17_BadConfigAborts ==
    last.op = "init"
    /\ (ConfigMissing \/ EntryMissing \/ TargetGiven = "umd")
    => compiler = "null" /\ resolver = "null" /\ InFlight = 0

\* C17, amended: startup aborts, with no compiler, no build and no resolver,
\* exactly when the configuration cannot be located or the handler of a
\* function does not resolve to a file, and nothing happens afterwards;
\* otherwise startup proceeds, and an output.libraryTarget that is not
\* supported is replaced by commonjs2.
C17_MissingConfigAborts ==
    /\ compiler = "null" <=> resolver = "null"
    /\ compiler = "null" =>
          /\ last.op = "init"
          /\ ConfigMissing \/ EntryMissing
          /\ InFlight = 0
          /\ ~state
          /\ \A i \in Ids : conts[i] = NoCont
    /\ last.op = "init" /\ (ConfigMissing \/ EntryMissing) => compiler = "null"
    /\ last.op = "init" /\ ~ConfigMissing /\ ~EntryMissing =>
          /\ compiler = "webpack"
          /\ resolver = "resolver"
          /\ InFlight = 2
          /\ libraryTarget = IF TargetGiven \in {CommonJS, CommonJS2}
                             THEN TargetGiven
                             ELSE CommonJS2

C17_Witness ==
    /\ last.op = "init"
    /\ ~ConfigMissing
    /\ ~EntryMissing
    /\ TargetGiven = "umd"
    /\ compiler = "webpack"
    /\ resolver = "resolver"
    /\ libraryTarget = CommonJS2
    /\ InFlight = 2

\* C18: the INVALID transition is logged exactly once per VALID-to-INVALID
\* edge, whatever causes it: a step that takes the bundle from VALID to
\* INVALID logs 'bundle is now INVALID', and a step that finds it INVALID
\* does not.
C18_EdgeLoggedOnce ==
    /\ [][state /\ ~state' => last'.logged]_vars
    /\ [][~state => ~last'.logged]_vars

\* C19: the queue persists across invalidations.  markInvalid ('invalid',
\* 'watch-run', and 'run' inside rebuild), requestRebuild and a deferred drain
\* that finds the bundle INVALID leave the queue as it is, and markInvalid
\* leaves RebuildFlag as it is; the queue changes only when a call made while
\* INVALID appends its continuation and when a drain that runs while VALID
\* removes all entries.
C19_QueuePersists ==
    /\ [][IsMark => UNCHANGED <<compilationCallbacks, forceRebuild>>]_vars
    /\ [][IsRebuild => UNCHANGED compilationCallbacks]_vars
    /\ [][IsTick /\ ~state => UNCHANGED compilationCallbacks]_vars
    /\ [][compilationCallbacks' # compilationCallbacks =>
            \/ /\ IsCall
               /\ ~state
               /\ compilationCallbacks' = Append(compilationCallbacks, NextId)
            \/ /\ IsTick
               /\ state
               /\ compilationCallbacks' = <<>>]_vars

C19_Witness ==
    /\ last.op \in MarkInvalidOps
    /\ forceRebuild
    /\ Len(compilationCallbacks) >= 2
    /\ ticks > 0

\* C20: no continuation is stranded in a valid state: whenever the bundle is
\* VALID and no deferred drain is pending the queue is empty, that is, a
\* non-empty queue implies that the bundle is INVALID or a drain is scheduled.
C20_NoneStrandedWhenValid ==
    /\ state /\ ticks = 0 => compilationCallbacks = <<>>
    /\ compilationCallbacks # <<>> => ~state \/ ticks > 0

C20_Witness ==
    /\ state
    /\ ticks = 0
    /\ compilationCallbacks = <<>>
    /\ last.op = "readyCallback"
    /\ Len(last.inv) >= 2

\* C21: a continuation that throws during the drain does not keep the ones
\* queued after it from being invoked: every continuation in the queue when a
\* drain starts while the bundle is VALID is invoked by that drain or is still
\* in the queue after it.
C21_ThrowDropsNone ==
    [][IsTick /\ state =>
          \A k \in 1..Len(compilationCallbacks) :
              \/ InSeq(compilationCallbacks[k], last'.inv)
              \/ InSeq(compilationCallbacks[k], compilationCallbacks')]_vars

\* C22: in every execution driven only by the exported operations (resolve,
\* resolveWhenReady) and by compiler events, forceRebuild is never set and
\* rebuild() is never called, so no compiler.run() is made after the one of
\* startup: no operation is a rebuild or makes a run() call, and the builds
\* started by run() are at most the one of startup.
C22_RebuildUnreachable ==
    /\ ~forceRebuild
    /\ burst = 0
    /\ last.op # "rebuild"
    /\ last.runs = 0
    /\ runBuilds <= 1
    /\ compiler = "null" => runBuilds = 0

\* Two builds have completed with callers waiting: neither a flag nor a run()
\* call has appeared.
C22_Witness ==
    /\ last.op = "done"
    /\ ticks >= 2
    /\ runBuilds = 0
    /\ ~forceRebuild
    /\ last.runs = 0
    /\ compilationCallbacks # <<>>

\* C23: whenever forceRebuild is set the bundle is INVALID: rebuild() sets the
\* flag only while the bundle is INVALID, and a 'done' handler has cleared the
\* flag when it returns and, if it found the flag set, has left the bundle
\* INVALID through the rebuild it issued.
C23_FlagImpliesInvalid ==
    /\ forceRebuild => ~state
    /\ last.op = "rebuild" /\ forceRebuild => last.runs = 0
    /\ last.op = "done" => ~forceRebuild
    /\ last.op = "done" /\ last.n > 0 => ~state /\ last.runs = 1
    /\ last.op = "done" /\ last.n = 0 => state /\ last.runs = 0

\* rebuild() was called while a drain was pending and the bundle INVALID
\* again, with callers waiting: the flag is set.
C23_Witness ==
    /\ last.op = "rebuild"
    /\ forceRebuild
    /\ ~state
    /\ ticks > 0
    /\ compilationCallbacks # <<>>

====
